---- MODULE Spec2Model ----
(***************************************************************************)
(* Fixed-rate quote negotiation of the Exolix swap plugin                  *)
(* (src/src/swap/central/exolix.ts): fetchSwapQuote, the negotiator         *)
(* getFixedQuote and its remote client call().                              *)
(*                                                                         *)
(* Amounts.  A native amount is a natural number.  A decimal (exchange)    *)
(* amount is a fixed-point number counted in 1/DecScale units; the wallet  *)
(* of a currency converts with that currency's Multiplier.                 *)
(* Optional / mistyped JSON fields are the sentinels below.                *)
(***************************************************************************)
EXTENDS Integers, Naturals, Sequences, FiniteSets, TLC

\* ------------------------------------------------------------------ bounds
NumProcs == 2            \* negotiations that exist on one plugin instance
MaxNow == 1              \* clock ticks the model lets elapse
TickMs == 1000           \* milliseconds per clock tick

Procs == 1 .. NumProcs
Solo == {1}              \* the negotiation that runs under Spec

\* -------------------------------------------------------- JSON sentinels
AbsentNum == 0 - 1         \* numeric field not present in the body
BadNum == 0 - 2           \* numeric field present with a non-number value
AbsentStr == "<absent>"  \* string field not present in the body
BadStr == "<mistyped>"   \* string field present with a non-string value
NullStr == "<null>"      \* JSON null

\* ----------------------------------------------------------- static data
pluginId == "exolix"

swapInfo == [pluginId |-> pluginId, isDex |-> FALSE, displayName |-> "Exolix"]

INVALID_CURRENCY_CODES_NoTo == [from |-> <<>>, to |-> <<>>]

INVALID_CURRENCY_CODES == [from |-> <<>>, to |-> ("zcash" :> {"ZEC"})]

MAINNET_CODE_TRANSCRIPTION ==
     ("algorand" :> "ALGO") @@ ("arbitrum" :> "ARBITRUM")
  @@ ("avalanche" :> "AVAXC") @@ ("binancesmartchain" :> "BSC")
  @@ ("bitcoin" :> "BTC") @@ ("bitcoincash" :> "BCH")
  @@ ("cardano" :> "ADA") @@ ("celo" :> "CELO")
  @@ ("cosmoshub" :> "ATOM") @@ ("dash" :> "DASH")
  @@ ("digibyte" :> "DGB") @@ ("dogecoin" :> "DOGE")
  @@ ("eos" :> "EOS") @@ ("ethereum" :> "ETH")
  @@ ("ethereumclassic" :> "ETC") @@ ("fantom" :> "FTM")
  @@ ("filecoin" :> "FIL") @@ ("hedera" :> "HBAR")
  @@ ("litecoin" :> "LTC") @@ ("monero" :> "XMR")
  @@ ("optimism" :> "OPTIMISM") @@ ("osmosis" :> "OSMO")
  @@ ("polkadot" :> "DOT") @@ ("qtum" :> "QTUM")
  @@ ("ravencoin" :> "RVN") @@ ("ripple" :> "XRP")
  @@ ("solana" :> "SOL") @@ ("stellar" :> "XLM")
  @@ ("telos" :> "TELOS") @@ ("tezos" :> "XTZ")
  @@ ("thorchainrune" :> "RUNE") @@ ("tron" :> "TRX")
  @@ ("zcash" :> "ZEC")

expirationMsLong == 1000 * 600

expirationMs == 1000 * 60

\* ------------------------------------------------------------- cleaners
\* asNumber
asNumberOk(x) == x >= 0

\* asString
asStringOk(s) == s \notin {AbsentStr, BadStr, NullStr}

\* asOptional(asNumber, ...): absent is accepted, a wrong type is not
asOptionalNumberOk(x) == x = AbsentNum \/ asNumberOk(x)

\* asOptional(asString): absent and null are accepted
asOptionalStringOk(s) == s \in {AbsentStr, NullStr} \/ asStringOk(s)

\* asEither(asString, asNull)
asStringOrNullOk(s) == s = NullStr \/ asStringOk(s)

\* asRateResponse with toAmount left unchecked
RateShapeOkLoose(b) ==
  /\ asNumberOk(b.minAmount)
  /\ asOptionalNumberOk(b.withdrawMin)
  /\ asNumberOk(b.fromAmount)
  /\ asStringOrNullOk(b.message)

\* does asRateResponse accept the body (asMaybe(asRateResponse)(b) != null)
RateShapeOk(b) ==
  /\ asNumberOk(b.minAmount)
  /\ asOptionalNumberOk(b.withdrawMin)
  /\ asNumberOk(b.fromAmount)
  /\ asNumberOk(b.toAmount)
  /\ asStringOrNullOk(b.message)

\* asRateResponse with a missing withdrawMin replaced by minAmount
asRateResponseDefaultMin(b) ==
  [minAmount |-> b.minAmount,
   withdrawMin |-> IF b.withdrawMin = AbsentNum
                   THEN b.minAmount ELSE b.withdrawMin,
   fromAmount |-> b.fromAmount,
   toAmount |-> b.toAmount,
   message |-> b.message]

\* the value asRateResponse returns for an accepted body
asRateResponse(b) ==
  [minAmount |-> b.minAmount,
   withdrawMin |-> IF b.withdrawMin = AbsentNum THEN 0 ELSE b.withdrawMin,
   fromAmount |-> b.fromAmount,
   toAmount |-> b.toAmount,
   message |-> b.message]

\* does asQuoteInfo accept the body
QuoteShapeOk(b) ==
  /\ asStringOk(b.id)
  /\ asNumberOk(b.amount)
  /\ asNumberOk(b.amountTo)
  /\ asStringOk(b.depositAddress)
  /\ asOptionalStringOk(b.depositExtraId)

\* the value asQuoteInfo returns for an accepted body
asQuoteInfo(b) ==
  [id |-> b.id,
   amount |-> b.amount,
   amountTo |-> b.amountTo,
   depositAddress |-> b.depositAddress,
   depositExtraId |->
     IF b.depositExtraId \in {AbsentStr, NullStr} THEN AbsentStr
     ELSE b.depositExtraId]

\* ------------------------------------------------- wallet collaborators
DecScale == 10 * 10      \* decimal amounts are counted in 1/DecScale units

\* native units per whole unit of a currency (the wallet's denomination)
Multiplier(code) ==
  CASE code = "BTC" -> 10 * 10
    [] code = "ZEC" -> 10 * 10
    [] code = "XRP" -> 10
    [] OTHER -> 10

\* wallet.nativeToDenomination(nativeAmount, currencyCode)
nativeToDenomination(n, code) == n * (DecScale \div Multiplier(code))

\* wallet.denominationToNative(denominatedAmount, currencyCode)
denominationToNative(d, code) == (d * Multiplier(code)) \div DecScale

\* parseFloat of the wallet's decimal string, and Number.toString back:
\* exact on the short decimals of the model, so the fixed-point count is kept
parseFloat(d) == d

\* getAddress(wallet): the wallet's receive address
getAddress(chain) == <<"address", chain>>

\* memoType(pluginId): the memo format of a chain
memoType(chain) ==
  CASE chain = "ripple" -> "number"
    [] chain = "ethereum" -> "hex"
    [] OTHER -> "text"

\* biggystring lt
lt(a, b) == a < b

\* String.prototype.toUpperCase on the symbols of the model
toUpperCase(s) ==
  CASE s = "btc" -> "BTC"
    [] s = "xrp" -> "XRP"
    [] OTHER -> s

\* -------------------------------------------------------------- errors
SwapCurrencyError(request) ==
  [name |-> "SwapCurrencyError", pluginId |-> swapInfo.pluginId,
   fromCurrencyCode |-> request.fromCurrencyCode,
   toCurrencyCode |-> request.toCurrencyCode]

SwapBelowLimitError(nativeMin, direction) ==
  [name |-> "SwapBelowLimitError", pluginId |-> swapInfo.pluginId,
   nativeMin |-> nativeMin, direction |-> direction]

\* new Error(`Exolix returned error code ${response.status}`)
StatusError(status) == [name |-> "Error", status |-> status]

\* the TypeError a cleaner throws on a body it rejects
CleanerError(cleaner) == [name |-> "TypeError", cleaner |-> cleaner]

\* an error thrown by a wallet collaborator or by fetch
CollaboratorError(who) == [name |-> "CollaboratorError", who |-> who]

\* ------------------------------------------------ request preconditions
\* checkInvalidCodes: does the blacklist reject the request
checkInvalidCodesThrows(invalidCodes, request) ==
  \/ /\ request.fromPluginId \in DOMAIN invalidCodes.from
     /\ request.fromCurrencyCode \in invalidCodes.from[request.fromPluginId]
  \/ /\ request.toPluginId \in DOMAIN invalidCodes.to
     /\ request.toCurrencyCode \in invalidCodes.to[request.toPluginId]

\* checkWhitelistedMainnetCodes: does the whitelist reject the request
checkWhitelistedMainnetCodesThrows(whitelist, request) ==
  \/ request.fromPluginId \notin DOMAIN whitelist
  \/ request.toPluginId \notin DOMAIN whitelist

\* getCodesWithTranscription(request, MAINNET_CODE_TRANSCRIPTION)
getCodesWithTranscription(request, table) ==
  [fromCurrencyCode |-> request.fromCurrencyCode,
   toCurrencyCode |-> request.toCurrencyCode,
   fromMainnetCode |->
     IF request.fromPluginId \in DOMAIN table
     THEN table[request.fromPluginId] ELSE AbsentStr,
   toMainnetCode |->
     IF request.toPluginId \in DOMAIN table
     THEN table[request.toPluginId] ELSE AbsentStr]

\* ------------------------------------------------------- remote client
\* response.ok
ResponseOk(status) == status >= 200 /\ status <= 299

Returns(body) == [kind |-> "json", body |-> body]

Throws(error) == [kind |-> "throw", error |-> error]

\* call() without the 422 inspection of the body
callNo422(status, body, request) ==
  IF ~ResponseOk(status) THEN Throws(StatusError(status)) ELSE Returns(body)

\* call() with the body returned unvalidated on 422
callTrust422(status, body, request) ==
  IF ~ResponseOk(status) /\ status # 422 THEN Throws(StatusError(status))
  ELSE Returns(body)

\* call(): what the client makes of a response that fetch delivered
call(status, body, request) ==
  IF ~ResponseOk(status)
  THEN IF status = 422
       THEN IF RateShapeOk(body)
            THEN Returns(body)
            ELSE Throws(SwapCurrencyError(request))
       ELSE Throws(StatusError(status))
  ELSE Returns(body)

\* quoteParams of the rate call
quoteParams(request, quoteAmount) ==
  LET codes == getCodesWithTranscription(request, MAINNET_CODE_TRANSCRIPTION)
  IN [coinFrom |-> codes.fromCurrencyCode,
      coinFromNetwork |-> codes.fromMainnetCode,
      coinTo |-> codes.toCurrencyCode,
      coinToNetwork |-> codes.toMainnetCode,
      amount |-> quoteAmount,
      rateType |-> "fixed",
      withdrawalAmount |->
        IF request.quoteFor = "to" THEN quoteAmount ELSE AbsentNum]

\* exchangeParams without the withdrawalAmount of a to request
exchangeParamsNoWithdrawal(request, qp, quoteAmount, fromAddress, toAddress) ==
  [coinFrom |-> qp.coinFrom,
   networkFrom |-> qp.coinFromNetwork,
   coinTo |-> qp.coinTo,
   networkTo |-> qp.coinToNetwork,
   amount |-> quoteAmount,
   withdrawalAddress |-> toAddress,
   withdrawalExtraId |-> "",
   refundAddress |-> fromAddress,
   refundExtraId |-> "",
   rateType |-> "fixed",
   withdrawalAmount |-> AbsentNum]

\* exchangeParams of the transactions call
exchangeParams(request, qp, quoteAmount, fromAddress, toAddress) ==
  [coinFrom |-> qp.coinFrom,
   networkFrom |-> qp.coinFromNetwork,
   coinTo |-> qp.coinTo,
   networkTo |-> qp.coinToNetwork,
   amount |-> quoteAmount,
   withdrawalAddress |-> toAddress,
   withdrawalExtraId |-> "",
   refundAddress |-> fromAddress,
   refundExtraId |-> "",
   rateType |-> "fixed",
   withdrawalAmount |->
     IF request.quoteFor = "to" THEN quoteAmount ELSE AbsentNum]

\* ------------------------------------------------------- minimum check
\* the minimum converted by the wallet of the opposite side
rateMinimumSwapped(request, rateResponse) ==
  IF request.quoteFor = "from"
  THEN [nativeMin |-> denominationToNative(rateResponse.minAmount,
                                           request.toCurrencyCode),
        direction |-> "from"]
  ELSE [nativeMin |-> denominationToNative(rateResponse.withdrawMin,
                                           request.fromCurrencyCode),
        direction |-> "to"]

\* the minimum with a non-null message taken as a below-minimum verdict
rateMinimumByMessage(request, rateResponse) ==
  IF rateResponse.message # NullStr
  THEN [nativeMin |-> request.nativeAmount + 1,
        direction |-> IF request.quoteFor = "from" THEN "from" ELSE "to"]
  ELSE IF request.quoteFor = "from"
  THEN [nativeMin |-> denominationToNative(rateResponse.minAmount,
                                           request.fromCurrencyCode),
        direction |-> "from"]
  ELSE [nativeMin |-> denominationToNative(rateResponse.withdrawMin,
                                           request.toCurrencyCode),
        direction |-> "to"]

\* the direction's minimum of the rate response, in native units
rateMinimum(request, rateResponse) ==
  IF request.quoteFor = "from"
  THEN [nativeMin |-> denominationToNative(rateResponse.minAmount,
                                           request.fromCurrencyCode),
        direction |-> "from"]
  ELSE [nativeMin |-> denominationToNative(rateResponse.withdrawMin,
                                           request.toCurrencyCode),
        direction |-> "to"]

belowMinimumNever(request, nativeMin) == FALSE

\* lt(request.nativeAmount, nativeMin)
belowMinimum(request, nativeMin) == lt(request.nativeAmount, nativeMin)

\* ------------------------------------------------------ order assembly
\* memos tagged with the memo type of the to wallet's chain
memosOfToChain(request, quoteInfo) ==
  IF quoteInfo.depositExtraId = AbsentStr
  THEN <<>>
  ELSE <<[type |-> memoType(request.toPluginId),
          value |-> quoteInfo.depositExtraId]>>

\* memos of the spend plan
memos(request, quoteInfo) ==
  IF quoteInfo.depositExtraId = AbsentStr
  THEN <<>>
  ELSE <<[type |-> memoType(request.fromPluginId),
          value |-> quoteInfo.depositExtraId]>>

\* the fee hint decided on the symbol as the request spells it
networkFeeOptionCaseSensitive(request) ==
  IF request.fromCurrencyCode = "BTC" THEN "high" ELSE "standard"

\* networkFeeOption of the spend plan
networkFeeOption(request) ==
  IF toUpperCase(request.fromCurrencyCode) = "BTC" THEN "high" ELSE "standard"

\* spendInfo
spendInfo(request, quoteInfo, fromNativeAmount, toNativeAmount, fromAddress, toAddress) ==
  [spendTargets |-> <<[nativeAmount |-> fromNativeAmount,
                       publicAddress |-> quoteInfo.depositAddress]>>,
   memos |-> memos(request, quoteInfo),
   networkFeeOption |-> networkFeeOption(request),
   savedAction |->
     [actionType |-> "swap",
      orderId |-> quoteInfo.id,
      isEstimate |-> FALSE,
      toAsset |-> [pluginId |-> request.toPluginId,
                   nativeAmount |-> toNativeAmount],
      fromAsset |-> [pluginId |-> request.fromPluginId,
                     nativeAmount |-> fromNativeAmount],
      payoutAddress |-> toAddress,
      refundAddress |-> fromAddress]]

\* the SwapOrder with the request's amount as fromNativeAmount
SwapOrderRequestAmount(request, info, fromNativeAmount, t) ==
  [request |-> request,
   spendInfo |-> info,
   swapInfo |-> swapInfo,
   fromNativeAmount |-> request.nativeAmount,
   expirationDate |-> t + expirationMs]

\* the SwapOrder getFixedQuote returns, built at instant t (Date.now())
SwapOrder(request, info, fromNativeAmount, t) ==
  [request |-> request,
   spendInfo |-> info,
   swapInfo |-> swapInfo,
   fromNativeAmount |-> fromNativeAmount,
   expirationDate |-> t + expirationMs]

\* makeSwapPluginQuote(order): the quote handed to the caller
makeSwapPluginQuote(order) == [kind |-> "quote", order |-> order]

\* ------------------------------------------------------- model inputs
Legs ==
  { [pluginId |-> "bitcoin", currencyCode |-> "BTC"],
    [pluginId |-> "ripple", currencyCode |-> "XRP"],
    [pluginId |-> "zcash", currencyCode |-> "ZEC"],
    [pluginId |-> "polygon", currencyCode |-> "POL"],
    [pluginId |-> "ethereum", currencyCode |-> "btc"] }

NativeAmounts == {5, 50}

\* the amounts a request may ask for
RequestAmounts == {0} \cup NativeAmounts

QuoteFors == {"from", "to", "max"}

Statuses == {200, 422, 500}

MakeRequest(f, t, q, n) ==
  [fromPluginId |-> f.pluginId, fromCurrencyCode |-> f.currencyCode,
   toPluginId |-> t.pluginId, toCurrencyCode |-> t.currencyCode,
   quoteFor |-> q, nativeAmount |-> n]

Requests ==
  { MakeRequest(f, t, q, n) : f \in Legs, t \in Legs, q \in QuoteFors,
                              n \in RequestAmounts }

Body(min, wmin, fromA, toA, msg, id, amount, amountTo, addr, extra) ==
  [minAmount |-> min, withdrawMin |-> wmin, fromAmount |-> fromA,
   toAmount |-> toA, message |-> msg, id |-> id, amount |-> amount,
   amountTo |-> amountTo, depositAddress |-> addr, depositExtraId |-> extra]

RateBody(min, wmin, fromA, toA, msg) ==
  Body(min, wmin, fromA, toA, msg,
       AbsentStr, AbsentNum, AbsentNum, AbsentStr, AbsentStr)

QuoteBody(id, amount, amountTo, addr, extra) ==
  Body(AbsentNum, AbsentNum, AbsentNum, AbsentNum, AbsentStr,
       id, amount, amountTo, addr, extra)

\* the body of the fake fetch of the test scaffold: {}
EmptyBody == QuoteBody(AbsentStr, AbsentNum, AbsentNum, AbsentStr, AbsentStr)

ValidRateBodies ==
  { RateBody(min, wmin, 20, 30, msg) :
      min \in {10, 50}, wmin \in {AbsentNum, 50},
      msg \in {NullStr, "Amount to exchange is below the possible min"} }

InvalidRateBodies ==
  { EmptyBody,
    RateBody(AbsentNum, 50, 20, 30, NullStr),
    RateBody(BadNum, 50, 20, 30, NullStr),
    RateBody(10, BadNum, 20, 30, NullStr),
    RateBody(10, 50, AbsentNum, 30, NullStr),
    RateBody(10, 50, BadNum, 30, NullStr),
    RateBody(10, 50, 20, AbsentNum, NullStr),
    RateBody(10, 50, 20, BadNum, NullStr),
    RateBody(10, 50, 20, 30, AbsentStr),
    RateBody(10, 50, 20, 30, BadStr) }

ValidQuoteBodies ==
  { QuoteBody("order1", 20, 30, "deposit1", extra) :
      extra \in {AbsentStr, "tag1"} }

\* a body that has the fields of both shapes
BothShapesBody ==
  Body(10, 50, 20, 30, NullStr, "order1", 20, 30, "deposit1", AbsentStr)

InvalidQuoteBodies ==
  { EmptyBody,
    QuoteBody(AbsentStr, 20, 30, "deposit1", AbsentStr),
    QuoteBody(BadStr, 20, 30, "deposit1", AbsentStr),
    QuoteBody("order1", AbsentNum, 30, "deposit1", AbsentStr),
    QuoteBody("order1", BadNum, 30, "deposit1", AbsentStr),
    QuoteBody("order1", 20, AbsentNum, "deposit1", AbsentStr),
    QuoteBody("order1", 20, BadNum, "deposit1", AbsentStr),
    QuoteBody("order1", 20, 30, AbsentStr, AbsentStr),
    QuoteBody("order1", 20, 30, BadStr, AbsentStr),
    QuoteBody("order1", 20, 30, "deposit1", BadStr) }

RateBodies == ValidRateBodies \cup InvalidRateBodies

TransactionBodies ==
  ValidQuoteBodies \cup InvalidQuoteBodies \cup {BothShapesBody}

\* ---------------------------------------------------------------- state
VARIABLES
  req,      \* req[p]: the request handed to fetchSwapQuote
  cur,      \* cur[p]: the request the running getFixedQuote was called with
  pc,       \* pc[p]: the step negotiation p is suspended at
  inv,      \* inv[p]: the latest invocation of getFixedQuote: 0 none yet,
            \*         1 the callback of getMaxSwappable, 2 fetchSwapQuote's own
  loc,      \* loc[p]: the locals of the running getFixedQuote
  hist,     \* hist[p]: the wallet and remote events of the negotiation
  result,   \* result[p]: what fetchSwapQuote resolved or rejected with
  now       \* Date.now()

vars == <<req, cur, pc, inv, loc, hist, result, now>>

NoRate == [minAmount |-> AbsentNum, withdrawMin |-> AbsentNum,
           fromAmount |-> AbsentNum, toAmount |-> AbsentNum,
           message |-> AbsentStr]

NoQuote == [id |-> AbsentStr, amount |-> AbsentNum, amountTo |-> AbsentNum,
            depositAddress |-> AbsentStr, depositExtraId |-> AbsentStr]

NoLocals ==
  [fromAddress |-> <<>>, toAddress |-> <<>>, quoteAmount |-> AbsentNum,
   rateJson |-> <<>>, callJson |-> <<>>,
   rateResponse |-> NoRate, nativeMin |-> AbsentNum, quoteInfo |-> NoQuote,
   fromNativeAmount |-> AbsentNum, toNativeAmount |-> AbsentNum,
   startedAt |-> AbsentNum, builtAt |-> AbsentNum]

NoResult == [kind |-> "none"]

IdleRequest ==
  [fromPluginId |-> "bitcoin", fromCurrencyCode |-> "BTC",
   toPluginId |-> "ripple", toCurrencyCode |-> "XRP",
   quoteFor |-> "from", nativeAmount |-> 50]

InitFor(active) ==
  /\ \E r \in [active -> Requests] :
       req = [p \in Procs |-> IF p \in active THEN r[p] ELSE IdleRequest]
  /\ cur = req
  /\ pc = [p \in Procs |-> IF p \in active THEN "fetchSwapQuote" ELSE "off"]
  /\ inv = [p \in Procs |-> 0]
  /\ loc = [p \in Procs |-> NoLocals]
  /\ hist = [p \in Procs |-> <<>>]
  /\ result = [p \in Procs |-> NoResult]
  /\ now = 0

Init == InitFor(Solo)

\* --------------------------------------------------------------- helpers
Event(p, e) == hist' = [hist EXCEPT ![p] = Append(@, e)]

\* a throw that rejects every negotiation in flight on the plugin
RejectShared(p, error) ==
  /\ pc' = [q \in Procs |->
             IF q = p \/ pc[q] \notin {"off", "done", "failed"}
             THEN "failed" ELSE pc[q]]
  /\ result' = [q \in Procs |->
                 IF q = p \/ pc[q] \notin {"off", "done", "failed"}
                 THEN [kind |-> "error", error |-> error] ELSE result[q]]

\* a throw anywhere below fetchSwapQuote rejects fetchSwapQuote's promise
Reject(p, error) ==
  /\ pc' = [pc EXCEPT ![p] = "failed"]
  /\ result' = [result EXCEPT ![p] = [kind |-> "error", error |-> error]]

Goto(p, label) == pc' = [pc EXCEPT ![p] = label]

\* a wallet error rethrown as the plugin's own currency error
WalletThrewWrapped(p, step, error) ==
  /\ Event(p, [ev |-> "walletError", inv |-> inv[p], step |-> step,
               error |-> error])
  /\ Reject(p, SwapCurrencyError(cur[p]))

\* an awaited wallet call of getFixedQuote rejects: nothing catches it
WalletThrew(p, step, error) ==
  /\ Event(p, [ev |-> "walletError", inv |-> inv[p], step |-> step,
               error |-> error])
  /\ Reject(p, error)

\* ------------------------------------------------------- fetchSwapQuote
\* fetchSwapQuote with the whitelist check left out
FetchSwapQuoteNoWhitelist(p) ==
  /\ pc[p] = "fetchSwapQuote"
  /\ IF checkInvalidCodesThrows(INVALID_CURRENCY_CODES, req[p])
     THEN Reject(p, SwapCurrencyError(req[p]))
     ELSE Goto(p, "getMaxSwappable") /\ UNCHANGED result
  /\ UNCHANGED <<req, cur, inv, loc, hist, now>>

\* fetchSwapQuote up to its first await: convertRequest and the two checks
FetchSwapQuote(p) ==
  /\ pc[p] = "fetchSwapQuote"
  /\ IF \/ checkInvalidCodesThrows(INVALID_CURRENCY_CODES, req[p])
        \/ checkWhitelistedMainnetCodesThrows(MAINNET_CODE_TRANSCRIPTION,
                                              req[p])
     THEN Reject(p, SwapCurrencyError(req[p]))
     ELSE Goto(p, "getMaxSwappable") /\ UNCHANGED result
  /\ UNCHANGED <<req, cur, inv, loc, hist, now>>

\* getMaxSwappable(getFixedQuote, request): a request that is not for the
\* maximum is returned as it is and fetchSwapQuote calls getFixedQuote; a
\* request for the maximum is first quoted for the whole balance through
\* the callback
GetMaxSwappable(p) ==
  /\ pc[p] = "getMaxSwappable"
  /\ IF req[p].quoteFor # "max"
     THEN /\ cur' = [cur EXCEPT ![p] = req[p]]
          /\ inv' = [inv EXCEPT ![p] = 2]
     ELSE /\ \E balance \in NativeAmounts :
               cur' = [cur EXCEPT ![p] =
                         [req[p] EXCEPT !.nativeAmount = balance,
                                        !.quoteFor = "from"]]
          /\ inv' = [inv EXCEPT ![p] = 1]
  /\ loc' = [loc EXCEPT ![p] = [NoLocals EXCEPT !.startedAt = now]]
  /\ Goto(p, "getAddress")
  /\ UNCHANGED <<req, hist, result, now>>

\* getMaxSwappable after its callback returned an order: the request is
\* capped to wallet.getMaxSpendable and fetchSwapQuote calls getFixedQuote
MaxSpendable(p) ==
  /\ pc[p] = "getMaxSpendable"
  /\ \E ok \in BOOLEAN, maxAmount \in NativeAmounts :
       IF ok
       THEN /\ cur' = [cur EXCEPT ![p] = [@ EXCEPT !.nativeAmount = maxAmount]]
            /\ inv' = [inv EXCEPT ![p] = 2]
            /\ loc' = [loc EXCEPT ![p] = [NoLocals EXCEPT !.startedAt = now]]
            /\ Goto(p, "getAddress")
            /\ UNCHANGED result
       ELSE /\ Reject(p, CollaboratorError("getMaxSpendable"))
            /\ UNCHANGED <<cur, inv, loc>>
  /\ UNCHANGED <<req, hist, now>>

\* -------------------------------------------------------- getFixedQuote
\* Promise.all([getAddress(fromWallet), getAddress(toWallet)]) settles
GetAddresses(p) ==
  /\ pc[p] = "getAddress"
  /\ \E outcome \in {"ok", "fromFails", "toFails"} :
       IF outcome = "ok"
       THEN /\ loc' = [loc EXCEPT
                         ![p].fromAddress = getAddress(cur[p].fromPluginId),
                         ![p].toAddress = getAddress(cur[p].toPluginId)]
            /\ Event(p, [ev |-> "addresses", inv |-> inv[p]])
            /\ Goto(p, "nativeToDenomination")
            /\ UNCHANGED result
       ELSE /\ WalletThrew(p, "getAddress",
                            CollaboratorError(<<"getAddress", outcome>>))
            /\ UNCHANGED loc
  /\ UNCHANGED <<req, cur, inv, now>>

\* nativeToDenomination settles; quoteParams is built and the rate call
\* is handed to fetch
NativeToDenomination(p) ==
  /\ pc[p] = "nativeToDenomination"
  /\ \E ok \in BOOLEAN :
       IF ok
       THEN LET exchangeQuoteAmount ==
                  IF cur[p].quoteFor = "from"
                  THEN nativeToDenomination(cur[p].nativeAmount,
                                            cur[p].fromCurrencyCode)
                  ELSE nativeToDenomination(cur[p].nativeAmount,
                                            cur[p].toCurrencyCode)
                quoteAmount == parseFloat(exchangeQuoteAmount)
            IN /\ loc' = [loc EXCEPT ![p].quoteAmount = quoteAmount]
               /\ Event(p, [ev |-> "call", inv |-> inv[p], method |-> "GET",
                            route |-> "rate",
                            params |-> quoteParams(cur[p], quoteAmount)])
               /\ Goto(p, "rate")
               /\ UNCHANGED result
       ELSE /\ WalletThrew(p, "nativeToDenomination",
                            CollaboratorError("nativeToDenomination"))
            /\ UNCHANGED loc
  /\ UNCHANGED <<req, cur, inv, now>>

\* RateResponse with the rate call issued again when fetch rejects
RateResponseRetry(p) ==
  /\ pc[p] = "rate"
  /\ \/ /\ Event(p, [ev |-> "call", inv |-> inv[p], method |-> "GET",
                     route |-> "rate",
                     params |-> quoteParams(cur[p], loc[p].quoteAmount)])
        /\ UNCHANGED <<loc, pc, result>>
     \/ \E status \in Statuses, body \in RateBodies :
          LET r == call(status, body, cur[p])
          IN /\ Event(p, [ev |-> "response", inv |-> inv[p],
                          route |-> "rate", status |-> status,
                          shapeOk |-> RateShapeOk(body)])
             /\ IF r.kind = "throw"
                THEN /\ Reject(p, r.error)
                     /\ loc' = [loc EXCEPT ![p].rateJson = <<body>>]
                ELSE IF ~RateShapeOk(r.body)
                THEN /\ Reject(p, CleanerError("asRateResponse"))
                     /\ loc' = [loc EXCEPT ![p].rateJson = <<body>>]
                ELSE /\ loc' = [loc EXCEPT
                                  ![p].rateJson = <<body>>,
                                  ![p].rateResponse = asRateResponse(r.body)]
                     /\ Goto(p, "checkMinimum")
                     /\ UNCHANGED result
  /\ UNCHANGED <<req, cur, inv, now>>

\* the rate response arrives (or fetch rejects): call() and asRateResponse
RateResponse(p) ==
  /\ pc[p] = "rate"
  /\ \/ /\ Reject(p, CollaboratorError("fetch"))
        /\ Event(p, [ev |-> "fetchFailed", inv |-> inv[p], route |-> "rate"])
        /\ UNCHANGED loc
     \/ \E status \in Statuses, body \in RateBodies :
          LET r == call(status, body, cur[p])
          IN /\ Event(p, [ev |-> "response", inv |-> inv[p],
                          route |-> "rate", status |-> status,
                          shapeOk |-> RateShapeOk(body)])
             /\ IF r.kind = "throw"
                THEN /\ Reject(p, r.error)
                     /\ loc' = [loc EXCEPT ![p].rateJson = <<body>>]
                ELSE IF ~RateShapeOk(r.body)
                THEN /\ Reject(p, CleanerError("asRateResponse"))
                     /\ loc' = [loc EXCEPT ![p].rateJson = <<body>>]
                ELSE /\ loc' = [loc EXCEPT
                                  ![p].rateJson = <<body>>,
                                  ![p].rateResponse = asRateResponse(r.body)]
                     /\ Goto(p, "checkMinimum")
                     /\ UNCHANGED result
  /\ UNCHANGED <<req, cur, inv, now>>

\* denominationToNative of the minimum settles; the minimum is enforced
\* and, when it passes, the transactions call is handed to fetch
CheckMinimum(p) ==
  /\ pc[p] = "checkMinimum"
  /\ \E ok \in BOOLEAN :
       IF ~ok
       THEN /\ WalletThrew(p, "minimum",
                            CollaboratorError("denominationToNative"))
            /\ UNCHANGED loc
       ELSE LET m == rateMinimum(cur[p], loc[p].rateResponse)
            IN /\ loc' = [loc EXCEPT ![p].nativeMin = m.nativeMin]
               /\ IF belowMinimum(cur[p], m.nativeMin)
                  THEN /\ Reject(p, SwapBelowLimitError(m.nativeMin,
                                                        m.direction))
                       /\ UNCHANGED hist
                  ELSE /\ Event(p, [ev |-> "call", inv |-> inv[p],
                                    method |-> "POST",
                                    route |-> "transactions",
                                    params |->
                                      exchangeParams(cur[p],
                                        quoteParams(cur[p],
                                                    loc[p].quoteAmount),
                                        loc[p].quoteAmount,
                                        loc[p].fromAddress,
                                        loc[p].toAddress)])
                       /\ Goto(p, "transactions")
                       /\ UNCHANGED result
  /\ UNCHANGED <<req, cur, inv, now>>

\* the transactions response arrives (or fetch rejects): call(), asQuoteInfo
TransactionsResponse(p) ==
  /\ pc[p] = "transactions"
  /\ \/ /\ Reject(p, CollaboratorError("fetch"))
        /\ Event(p, [ev |-> "fetchFailed", inv |-> inv[p],
                     route |-> "transactions"])
        /\ UNCHANGED loc
     \/ \E status \in Statuses, body \in TransactionBodies :
          LET r == call(status, body, cur[p])
          IN /\ Event(p, [ev |-> "response", inv |-> inv[p],
                          route |-> "transactions", status |-> status,
                          shapeOk |-> QuoteShapeOk(body)])
             /\ IF r.kind = "throw"
                THEN /\ Reject(p, r.error)
                     /\ loc' = [loc EXCEPT ![p].callJson = <<body>>]
                ELSE IF ~QuoteShapeOk(r.body)
                THEN /\ Reject(p, CleanerError("asQuoteInfo"))
                     /\ loc' = [loc EXCEPT ![p].callJson = <<body>>]
                ELSE /\ loc' = [loc EXCEPT
                                  ![p].callJson = <<body>>,
                                  ![p].quoteInfo = asQuoteInfo(r.body)]
                     /\ Goto(p, "toNative")
                     /\ UNCHANGED result
  /\ UNCHANGED <<req, cur, inv, now>>

\* the two denominationToNative conversions of the bound order settle and
\* the order is assembled and returned: to getMaxSwappable from its
\* callback, to fetchSwapQuote (and through makeSwapPluginQuote to the
\* caller) otherwise
ReturnOrder(p) ==
  /\ pc[p] = "toNative"
  /\ \E outcome \in {"ok", "fromFails", "toFails"} :
       IF outcome # "ok"
       THEN /\ WalletThrew(p, "amounts",
                   CollaboratorError(<<"denominationToNative", outcome>>))
            /\ UNCHANGED loc
       ELSE LET q == loc[p].quoteInfo
                fromNativeAmount ==
                  denominationToNative(q.amount, cur[p].fromCurrencyCode)
                toNativeAmount ==
                  denominationToNative(q.amountTo, cur[p].toCurrencyCode)
                info == spendInfo(cur[p], q, fromNativeAmount, toNativeAmount,
                                  loc[p].fromAddress, loc[p].toAddress)
                order == SwapOrder(cur[p], info, fromNativeAmount, now)
            IN /\ loc' = [loc EXCEPT
                            ![p].fromNativeAmount = fromNativeAmount,
                            ![p].toNativeAmount = toNativeAmount,
                            ![p].builtAt = now]
               /\ Event(p, [ev |-> "return", inv |-> inv[p]])
               /\ IF inv[p] = 1
                  THEN /\ Goto(p, "getMaxSpendable")
                       /\ UNCHANGED result
                  ELSE /\ pc' = [pc EXCEPT ![p] = "done"]
                       /\ result' = [result EXCEPT
                                       ![p] = makeSwapPluginQuote(order)]
  /\ UNCHANGED <<req, cur, inv, now>>

\* time passes while a negotiation is suspended
Tick ==
  /\ now < MaxNow * TickMs
  /\ \E p \in Procs : pc[p] \notin {"off", "done", "failed"}
  /\ now' = now + TickMs
  /\ UNCHANGED <<req, cur, pc, inv, loc, hist, result>>

Step(p) ==
  \/ FetchSwapQuote(p)
  \/ GetMaxSwappable(p)
  \/ MaxSpendable(p)
  \/ GetAddresses(p)
  \/ NativeToDenomination(p)
  \/ RateResponse(p)
  \/ CheckMinimum(p)
  \/ TransactionsResponse(p)
  \/ ReturnOrder(p)

Next == (\E p \in Solo : Step(p)) \/ Tick

Spec == Init /\ [][Next]_vars

\* ------------------------------------------- two negotiations at once
\* the negotiations that run under SpecConc
Pair == {1, 2}

\* the requests of the two concurrent fetchSwapQuote calls
ConcRequest(p) ==
  IF p = 1
  THEN MakeRequest([pluginId |-> "bitcoin", currencyCode |-> "BTC"],
                   [pluginId |-> "ripple", currencyCode |-> "XRP"],
                   "from", 50)
  ELSE MakeRequest([pluginId |-> "ripple", currencyCode |-> "XRP"],
                   [pluginId |-> "bitcoin", currencyCode |-> "BTC"],
                   "to", 5)

InitConc ==
  /\ req = [p \in Procs |-> IF p \in Pair THEN ConcRequest(p)
                                          ELSE IdleRequest]
  /\ cur = req
  /\ pc = [p \in Procs |-> IF p \in Pair THEN "fetchSwapQuote" ELSE "off"]
  /\ inv = [p \in Procs |-> 0]
  /\ loc = [p \in Procs |-> NoLocals]
  /\ hist = [p \in Procs |-> <<>>]
  /\ result = [p \in Procs |-> NoResult]
  /\ now = 0

\* the steps of a request that is not for the maximum
StepConc(p) ==
  \/ FetchSwapQuote(p)
  \/ GetMaxSwappable(p)
  \/ GetAddresses(p)
  \/ NativeToDenomination(p)
  \/ RateResponse(p)
  \/ CheckMinimum(p)
  \/ TransactionsResponse(p)
  \/ ReturnOrder(p)

\* the event loop runs one continuation of either negotiation at a time;
\* the clock, which the negotiations only read, stands still
NextConc == \E p \in Pair : StepConc(p)

SpecConc == InitConc /\ [][NextConc]_vars

\* ============================================================== claims
Last(q) == q[Len(q)]

\* the remote calls to a route that invocation i of negotiation p issued
CallsOf(p, route, i) ==
  { k \in 1 .. Len(hist[p]) :
      /\ hist[p][k].ev = "call"
      /\ hist[p][k].route = route
      /\ hist[p][k].inv = i }

\* all calls to a route over the whole fetchSwapQuote of p
AllCallsOf(p, route) ==
  { k \in 1 .. Len(hist[p]) :
      hist[p][k].ev = "call" /\ hist[p][k].route = route }

Failed(p) == pc[p] = "failed" /\ result[p].kind = "error"

FailedAs(p, name) == Failed(p) /\ result[p].error.name = name

\* the minimum the claims name: the input minimum through the from wallet
\* for a from request, the output minimum through the to wallet otherwise
DirectionMinimum(request, rate) ==
  IF request.quoteFor = "from"
  THEN denominationToNative(rate.minAmount, request.fromCurrencyCode)
  ELSE denominationToNative(rate.withdrawMin, request.toCurrencyCode)

\* the minimum check of the running invocation has been made
MinimumChecked(p) == loc[p].nativeMin # AbsentNum

\* the last event of p is the rate response of a non-success status
RateErrorStatusSeen(p) ==
  /\ hist[p] # <<>>
  /\ Last(hist[p]).ev = "response"
  /\ Last(hist[p]).route = "rate"
  /\ ~ResponseOk(Last(hist[p]).status)

\* C1: a transactions call is issued only after a rate response was
\* accepted and the minimum check passed; a request below the direction's
\* native minimum ends in SwapBelowLimitError with no transactions call
C1_NoBindingBelowMinimum ==
  \A p \in Procs :
    /\ ( MinimumChecked(p)
         /\ cur[p].nativeAmount
              < DirectionMinimum(cur[p], loc[p].rateResponse) )
       => ( FailedAs(p, "SwapBelowLimitError")
            /\ CallsOf(p, "transactions", inv[p]) = {} )
    /\ CallsOf(p, "transactions", inv[p]) # {}
       => ( /\ loc[p].rateResponse # NoRate
            /\ MinimumChecked(p)
            /\ cur[p].nativeAmount
                 >= DirectionMinimum(cur[p], loc[p].rateResponse)
            /\ \E j \in 1 .. Len(hist[p]) :
                 /\ hist[p][j].ev = "response"
                 /\ hist[p][j].route = "rate"
                 /\ hist[p][j].inv = inv[p]
                 /\ \A k \in CallsOf(p, "transactions", inv[p]) : j < k )

C1_Witness ==
  \E p \in Procs :
    /\ FailedAs(p, "SwapBelowLimitError")
    /\ req[p].quoteFor = "from"
    /\ loc[p].rateResponse.minAmount = 10
    /\ req[p].nativeAmount = 5
    /\ req[p].fromCurrencyCode = "BTC"
    /\ CallsOf(p, "transactions", inv[p]) = {}

\* C2: once the minimum is converted, a from request fails with
\* SwapBelowLimitError(nativeMin, 'from') exactly when its amount is below
\* minAmount converted by the from wallet, a to request fails with
\* SwapBelowLimitError(nativeMin, 'to') exactly when below withdrawMin
\* converted by the to wallet; an equal amount passes
C2_DirectionCorrectMinimum ==
  \A p \in Procs :
    MinimumChecked(p) =>
      LET rate == loc[p].rateResponse
          fromMin == denominationToNative(rate.minAmount,
                                          cur[p].fromCurrencyCode)
          toMin == denominationToNative(rate.withdrawMin,
                                        cur[p].toCurrencyCode)
      IN IF cur[p].quoteFor = "from"
         THEN IF cur[p].nativeAmount < fromMin
              THEN Failed(p)
                   /\ result[p].error = SwapBelowLimitError(fromMin, "from")
              ELSE ~FailedAs(p, "SwapBelowLimitError")
         ELSE IF cur[p].nativeAmount < toMin
              THEN Failed(p)
                   /\ result[p].error = SwapBelowLimitError(toMin, "to")
              ELSE ~FailedAs(p, "SwapBelowLimitError")

C2_Witness ==
  \E p \in Procs :
    /\ cur[p].quoteFor = "to"
    /\ MinimumChecked(p)
    /\ loc[p].rateResponse.withdrawMin = 50
    /\ cur[p].nativeAmount
         = denominationToNative(50, cur[p].toCurrencyCode)
    /\ cur[p].fromCurrencyCode = "BTC" /\ cur[p].toCurrencyCode = "XRP"
    /\ pc[p] = "transactions"

C4_NothingRetried ==
  /\ [](\A p \in Procs :
          /\ \A i \in {1, 2} :
               /\ Cardinality(CallsOf(p, "rate", i)) <= 1
               /\ Cardinality(CallsOf(p, "transactions", i)) <= 1
          /\ pc[p] = "failed" => result[p].kind = "error")
  /\ [][\A p \in Procs :
          pc[p] = "failed"
            => /\ pc'[p] = "failed"
               /\ hist'[p] = hist[p]
               /\ result'[p] = result[p]]_vars

C4_Witness ==
  \E p \in Procs :
    /\ FailedAs(p, "CollaboratorError")
    /\ Cardinality(CallsOf(p, "rate", 2)) = 1
    /\ Last(hist[p]).ev = "fetchFailed"

\* the rate body was accepted as a quote and the negotiation was not
\* failed by the client or the cleaner
RateAccepted(p) ==
  /\ loc[p].rateResponse # NoRate
  /\ ~FailedAs(p, "Error")
  /\ ~FailedAs(p, "SwapCurrencyError")
  /\ ~FailedAs(p, "TypeError")

\* C5 as stated: a rate response of any non-success status whose body has
\* the rate shape is accepted as a rate quote and the negotiation goes on
\* to the minimum check
C5_AnyErrorStatusRateAccepted ==
  \A p \in Procs :
    (RateErrorStatusSeen(p) /\ Last(hist[p]).shapeOk) => RateAccepted(p)

\* C5 amended: a rate response of status 422 whose body has the rate shape
\* is accepted as a rate quote and the negotiation goes on to the minimum
\* check; with any other non-success status the negotiation fails with
\* the error that carries the status, whatever the body
C5_Status422RateAccepted ==
  \A p \in Procs :
    (RateErrorStatusSeen(p) /\ Last(hist[p]).shapeOk) =>
      IF Last(hist[p]).status = 422
      THEN RateAccepted(p)
      ELSE /\ Failed(p)
           /\ result[p].error = StatusError(Last(hist[p]).status)
           /\ loc[p].rateResponse = NoRate

C5_Witness ==
  \E p \in Procs :
    /\ RateErrorStatusSeen(p)
    /\ Last(hist[p]).status = 422
    /\ Last(hist[p]).shapeOk
    /\ loc[p].rateResponse.message # NullStr
    /\ pc[p] = "checkMinimum"

\* C6 as stated: a rate response of any non-success status whose body
\* fails the rate shape ends the negotiation in the error that carries
\* that status, and no transactions call is issued
C6_AnyErrorStatusCarried ==
  \A p \in Procs :
    (RateErrorStatusSeen(p) /\ ~Last(hist[p]).shapeOk) =>
      /\ Failed(p)
      /\ result[p].error = StatusError(Last(hist[p]).status)
      /\ CallsOf(p, "transactions", inv[p]) = {}

\* C6 amended: such a response ends the negotiation in an error and no
\* transactions call is issued; the error carries the status for every
\* non-success status but 422, for which it is SwapCurrencyError
C6_ErrorStatusFails ==
  \A p \in Procs :
    (RateErrorStatusSeen(p) /\ ~Last(hist[p]).shapeOk) =>
      /\ Failed(p)
      /\ result[p].error =
           IF Last(hist[p]).status = 422
           THEN SwapCurrencyError(cur[p])
           ELSE StatusError(Last(hist[p]).status)
      /\ CallsOf(p, "transactions", inv[p]) = {}

C6_Witness ==
  \E p \in Procs :
    /\ RateErrorStatusSeen(p)
    /\ ~Last(hist[p]).shapeOk
    /\ Last(hist[p]).status = 500
    /\ FailedAs(p, "Error")
    /\ result[p].error.status = 500

\* the request was rejected by fetchSwapQuote's checks: before
\* getMaxSwappable, any getFixedQuote and any wallet or remote event
RejectedUpFront(p) ==
  /\ Failed(p)
  /\ result[p].error = SwapCurrencyError(req[p])
  /\ hist[p] = <<>>
  /\ inv[p] = 0
  /\ loc[p] = NoLocals

ChainAbsent(request) ==
  \/ request.fromPluginId \notin DOMAIN MAINNET_CODE_TRANSCRIPTION
  \/ request.toPluginId \notin DOMAIN MAINNET_CODE_TRANSCRIPTION

\* C7: once fetchSwapQuote has made its checks, a request with a chain
\* absent from the transcription table is rejected with SwapCurrencyError
\* before any call, adjustment or negotiation; a request with both chains
\* present is rejected there only by the blacklist
C7_WhitelistRejectsBeforeAnyCall ==
  \A p \in Procs :
    pc[p] \notin {"off", "fetchSwapQuote"} =>
      /\ ChainAbsent(req[p]) => RejectedUpFront(p)
      /\ ( ~ChainAbsent(req[p])
           /\ ~checkInvalidCodesThrows(INVALID_CURRENCY_CODES, req[p]) )
         => ~RejectedUpFront(p)

C7_Witness ==
  \E p \in Procs :
    /\ req[p].fromPluginId = "bitcoin"
    /\ req[p].toPluginId = "polygon"
    /\ RejectedUpFront(p)

IsBlacklistedPair(chain, symbol) == chain = "zcash" /\ symbol = "ZEC"

\* C8 as stated: a request with the blacklisted pair on either leg is
\* rejected with SwapCurrencyError before any call
C8_BlacklistEitherLeg ==
  \A p \in Procs :
    ( /\ pc[p] \notin {"off", "fetchSwapQuote"}
      /\ \/ IsBlacklistedPair(req[p].fromPluginId, req[p].fromCurrencyCode)
         \/ IsBlacklistedPair(req[p].toPluginId, req[p].toCurrencyCode) )
    => RejectedUpFront(p)

\* C8 amended: a request whose to leg is the blacklisted pair is rejected
\* with SwapCurrencyError before any call, whatever its from leg
C8_BlacklistToLeg ==
  \A p \in Procs :
    ( /\ pc[p] \notin {"off", "fetchSwapQuote"}
      /\ IsBlacklistedPair(req[p].toPluginId, req[p].toCurrencyCode) )
    => RejectedUpFront(p)

C8_Witness ==
  \E p \in Procs :
    /\ req[p].fromPluginId = "bitcoin"
    /\ IsBlacklistedPair(req[p].toPluginId, req[p].toCurrencyCode)
    /\ RejectedUpFront(p)

Returned(p) == pc[p] = "done" /\ result[p].kind = "quote"

\* C9 as stated: a returned order has no memo without depositExtraId and
\* one memo with it, whose value is depositExtraId and whose type is the
\* memo type of the to wallet's chain
C9_MemoOfDestinationChain ==
  \A p \in Procs :
    Returned(p) =>
      LET ms == result[p].order.spendInfo.memos
          extra == loc[p].quoteInfo.depositExtraId
      IN IF extra = AbsentStr
         THEN Len(ms) = 0
         ELSE /\ Len(ms) = 1
              /\ ms[1].value = extra
              /\ ms[1].type = memoType(cur[p].toPluginId)

\* C9 amended: the same, the memo's type being the memo type of the from
\* wallet's chain, the chain the deposit is sent on
C9_MemoOfSourceChain ==
  \A p \in Procs :
    Returned(p) =>
      LET ms == result[p].order.spendInfo.memos
          extra == loc[p].quoteInfo.depositExtraId
      IN IF extra = AbsentStr
         THEN Len(ms) = 0
         ELSE /\ Len(ms) = 1
              /\ ms[1].value = extra
              /\ ms[1].type = memoType(cur[p].fromPluginId)

C9_Witness ==
  \E p \in Procs :
    /\ Returned(p)
    /\ loc[p].quoteInfo.depositExtraId = "tag1"
    /\ cur[p].fromPluginId = "ripple"
    /\ cur[p].toPluginId = "bitcoin"
    /\ result[p].order.spendInfo.memos = <<[type |-> "number",
                                            value |-> "tag1"]>>

\* C10: a returned order expires 60 000 ms after the instant it was built
C10_ExpiresSixtySecondsAfterBuild ==
  \A p \in Procs :
    Returned(p) =>
      result[p].order.expirationDate = loc[p].builtAt + 60000

C10_Witness ==
  \E p \in Procs :
    /\ Returned(p)
    /\ loc[p].startedAt = 0
    /\ loc[p].builtAt = MaxNow * TickMs
    /\ result[p].order.expirationDate = MaxNow * TickMs + 60000

\* C11: a returned order's networkFeeOption is 'high' exactly when the
\* from currency code, uppercased, is 'BTC', and 'standard' otherwise
C11_FeeHintHighIffBTC ==
  \A p \in Procs :
    Returned(p) =>
      LET hint == result[p].order.spendInfo.networkFeeOption
      IN /\ hint \in {"high", "standard"}
         /\ hint = "high" <=> cur[p].fromCurrencyCode \in {"BTC", "btc"}

C11_Witness ==
  \E p \in Procs :
    /\ Returned(p)
    /\ cur[p].fromCurrencyCode = "btc"
    /\ result[p].order.spendInfo.networkFeeOption = "high"

\* the decimal amount of the running invocation's request: its native
\* amount through the wallet of the quoted side
DecimalRequestAmount(request) ==
  IF request.quoteFor = "from"
  THEN nativeToDenomination(request.nativeAmount, request.fromCurrencyCode)
  ELSE nativeToDenomination(request.nativeAmount, request.toCurrencyCode)

\* the parameter of a call that carries the amount for a direction
DirectionAmount(params, quoteFor) ==
  IF quoteFor = "from" THEN params.amount ELSE params.withdrawalAmount

\* C12: in the rate call and in the transactions call of an invocation the
\* decimal request amount is sent as amount for a from request and as
\* withdrawalAmount for a to request, withdrawalAmount is present exactly
\* for a to request, and the two calls carry the same value, asset codes
\* and network codes
C12_AmountTaggedByDirection ==
  \A p \in Procs :
    /\ \A k \in CallsOf(p, "rate", inv[p]) \cup
                CallsOf(p, "transactions", inv[p]) :
         LET ps == hist[p][k].params
         IN /\ ps.withdrawalAmount # AbsentNum <=> cur[p].quoteFor = "to"
            /\ DirectionAmount(ps, cur[p].quoteFor)
                 = DecimalRequestAmount(cur[p])
    /\ \A i \in {1, 2} :
         \A k \in CallsOf(p, "rate", i) :
           \A j \in CallsOf(p, "transactions", i) :
             LET r == hist[p][k].params
                 t == hist[p][j].params
             IN /\ t.amount = r.amount
                /\ t.withdrawalAmount = r.withdrawalAmount
                /\ t.coinFrom = r.coinFrom
                /\ t.coinTo = r.coinTo
                /\ t.networkFrom = r.coinFromNetwork
                /\ t.networkTo = r.coinToNetwork

C12_Witness ==
  \E p \in Procs :
    /\ cur[p].quoteFor = "to"
    /\ cur[p].toCurrencyCode = "XRP"
    /\ cur[p].nativeAmount = 5
    /\ pc[p] = "transactions"
    /\ \E k \in CallsOf(p, "rate", 2) :
         hist[p][k].params.withdrawalAmount = 50
    /\ \E j \in CallsOf(p, "transactions", 2) :
         hist[p][j].params.withdrawalAmount = 50

\* the last event of p is the rejection of a wallet call
WalletErrorSeen(p) ==
  /\ hist[p] # <<>>
  /\ Last(hist[p]).ev = "walletError"

\* C13: the error of a failed wallet call is the result as the wallet
\* threw it; after a failed address resolution or native-to-decimal
\* conversion the invocation has issued neither call, after a failed
\* conversion of the minimum it has issued no transactions call
C13_WalletErrorsPropagate ==
  \A p \in Procs :
    WalletErrorSeen(p) =>
      /\ Failed(p)
      /\ result[p].error = Last(hist[p]).error
      /\ Last(hist[p]).step \in {"getAddress", "nativeToDenomination"}
           => /\ CallsOf(p, "rate", inv[p]) = {}
              /\ CallsOf(p, "transactions", inv[p]) = {}
      /\ Last(hist[p]).step = "minimum"
           => CallsOf(p, "transactions", inv[p]) = {}

C13_Witness ==
  \E p \in Procs :
    /\ WalletErrorSeen(p)
    /\ Last(hist[p]).step = "minimum"
    /\ FailedAs(p, "CollaboratorError")
    /\ Cardinality(CallsOf(p, "rate", inv[p])) = 1
    /\ CallsOf(p, "transactions", inv[p]) = {}

\* a required field of the rate shape is missing or mistyped in the body
RateFieldBroken(b) ==
  \/ b.minAmount \in {AbsentNum, BadNum}
  \/ b.fromAmount \in {AbsentNum, BadNum}
  \/ b.toAmount \in {AbsentNum, BadNum}
  \/ b.message \in {AbsentStr, BadStr}

\* a required field of the bound order shape is missing or mistyped
QuoteFieldBroken(b) ==
  \/ b.id \in {AbsentStr, BadStr, NullStr}
  \/ b.amount \in {AbsentNum, BadNum}
  \/ b.amountTo \in {AbsentNum, BadNum}
  \/ b.depositAddress \in {AbsentStr, BadStr, NullStr}

\* C14: a rate response with a required field missing or mistyped ends
\* the negotiation in an error with no transactions call; a transactions
\* response with a required field missing or mistyped ends it in an error
\* and no order is returned
C14_ValidationFailsClosed ==
  \A p \in Procs :
    /\ ( loc[p].rateJson # <<>> /\ RateFieldBroken(loc[p].rateJson[1]) )
       => /\ Failed(p)
          /\ loc[p].rateResponse = NoRate
          /\ CallsOf(p, "transactions", inv[p]) = {}
    /\ ( loc[p].callJson # <<>> /\ QuoteFieldBroken(loc[p].callJson[1]) )
       => /\ Failed(p)
          /\ loc[p].quoteInfo = NoQuote
          /\ ~Returned(p)

C14_Witness ==
  \E p \in Procs :
    /\ loc[p].callJson = <<QuoteBody("order1", 20, 30, AbsentStr, AbsentStr)>>
    /\ Last(hist[p]).ev = "response"
    /\ Last(hist[p]).status = 200
    /\ FailedAs(p, "TypeError")
    /\ loc[p].rateResponse # NoRate

\* the rate body of the running to-direction invocation was accepted and
\* has no withdrawMin
WithdrawMinOmitted(p) ==
  /\ cur[p].quoteFor = "to"
  /\ loc[p].rateResponse # NoRate
  /\ loc[p].rateJson # <<>>
  /\ loc[p].rateJson[1].withdrawMin = AbsentNum

\* C15: a to request whose rate response has no withdrawMin is checked
\* against a minimum of zero: whatever its amount it never fails with
\* SwapBelowLimitError, and once the minimum is converted the transactions
\* call is issued
C15_MissingWithdrawMinIsZero ==
  \A p \in Procs :
    WithdrawMinOmitted(p) =>
      /\ loc[p].rateResponse.withdrawMin = 0
      /\ ~FailedAs(p, "SwapBelowLimitError")
      /\ MinimumChecked(p)
           => /\ loc[p].nativeMin = 0
              /\ Cardinality(CallsOf(p, "transactions", inv[p])) = 1

C15_Witness ==
  \E p \in Procs :
    /\ WithdrawMinOmitted(p)
    /\ req[p].nativeAmount = 0
    /\ loc[p].rateResponse.minAmount = 50
    /\ pc[p] = "transactions"

\* C16: a returned order has one spend target, at the bound order's
\* depositAddress, for the bound order's amount through the from wallet;
\* that amount is also fromNativeAmount and the provenance fromAsset
\* amount, the toAsset amount is the bound order's amountTo through the to
\* wallet, and payout and refund addresses are the to and from wallets'
C16_OrderCarriesBoundAmounts ==
  \A p \in Procs :
    Returned(p) =>
      LET o == result[p].order
          b == loc[p].callJson[1]
          fromNative == denominationToNative(b.amount,
                                             cur[p].fromCurrencyCode)
          toNative == denominationToNative(b.amountTo, cur[p].toCurrencyCode)
      IN /\ Len(o.spendInfo.spendTargets) = 1
         /\ o.spendInfo.spendTargets[1].publicAddress = b.depositAddress
         /\ o.spendInfo.spendTargets[1].nativeAmount = fromNative
         /\ o.fromNativeAmount = fromNative
         /\ o.spendInfo.savedAction.fromAsset.nativeAmount = fromNative
         /\ o.spendInfo.savedAction.toAsset.nativeAmount = toNative
         /\ o.spendInfo.savedAction.payoutAddress
              = getAddress(cur[p].toPluginId)
         /\ o.spendInfo.savedAction.refundAddress
              = getAddress(cur[p].fromPluginId)

C16_Witness ==
  \E p \in Procs :
    /\ Returned(p)
    /\ cur[p].quoteFor = "from"
    /\ cur[p].fromCurrencyCode = "XRP"
    /\ cur[p].toCurrencyCode = "BTC"
    /\ cur[p].nativeAmount = 50
    /\ result[p].order.fromNativeAmount = 2
    /\ result[p].order.spendInfo.savedAction.toAsset.nativeAmount = 30

\* the events of fetchSwapQuote's own getFixedQuote invocation
MainEvents(p) == SelectSeq(hist[p], LAMBDA e : e.inv = 2)

\* C18: an order is returned only after, in this order, the addresses
\* were resolved, one rate call returned a validated body, the minimum
\* check passed, and one transactions call returned a success status with
\* a validated body; no transactions call precedes the rate response of
\* its invocation
C18_OrderOnlyAfterSuccessfulSteps ==
  \A p \in Procs :
    /\ Returned(p) =>
         LET es == MainEvents(p)
         IN /\ Len(es) = 6
            /\ es[1].ev = "addresses"
            /\ es[2].ev = "call" /\ es[2].route = "rate"
            /\ es[3].ev = "response" /\ es[3].route = "rate"
            /\ es[3].shapeOk
            /\ MinimumChecked(p)
            /\ cur[p].nativeAmount
                 >= DirectionMinimum(cur[p], loc[p].rateResponse)
            /\ es[4].ev = "call" /\ es[4].route = "transactions"
            /\ es[5].ev = "response" /\ es[5].route = "transactions"
            /\ es[5].shapeOk
            /\ ResponseOk(es[5].status)
            /\ es[6].ev = "return"
    /\ \A i \in {1, 2} :
         \A k \in CallsOf(p, "transactions", i) :
           \E j \in 1 .. (k - 1) :
             /\ hist[p][j].ev = "response"
             /\ hist[p][j].route = "rate"
             /\ hist[p][j].inv = i

\* the rate response of the running invocation came with status 200 or
\* 422 and its body was accepted
RateQuoteReceived(p) ==
  /\ loc[p].rateJson # <<>>
  /\ ~RateFieldBroken(loc[p].rateJson[1])
  /\ loc[p].rateJson[1].withdrawMin # BadNum
  /\ \E k \in 1 .. Len(hist[p]) :
       /\ hist[p][k].ev = "response"
       /\ hist[p][k].route = "rate"
       /\ hist[p][k].inv = inv[p]
       /\ hist[p][k].status \in {200, 422}

\* C19: once a rate body of status 200 or 422 is accepted, the outcome of
\* the minimum check is the function of amount, direction and minimum
\* alone: below the minimum SwapBelowLimitError and no transactions call,
\* otherwise one transactions call for the request's amount and addresses,
\* whatever the status and the message were
C19_OutcomeIgnoresStatusAndMessage ==
  \A p \in Procs :
    RateQuoteReceived(p) =>
      /\ loc[p].rateResponse # NoRate
      /\ MinimumChecked(p) =>
           IF cur[p].nativeAmount
                < DirectionMinimum(cur[p], loc[p].rateResponse)
           THEN /\ FailedAs(p, "SwapBelowLimitError")
                /\ CallsOf(p, "transactions", inv[p]) = {}
           ELSE /\ ~FailedAs(p, "SwapBelowLimitError")
                /\ Cardinality(CallsOf(p, "transactions", inv[p])) = 1
                /\ \A k \in CallsOf(p, "transactions", inv[p]) :
                     LET ps == hist[p][k].params
                     IN /\ DirectionAmount(ps, cur[p].quoteFor)
                             = DecimalRequestAmount(cur[p])
                        /\ ps.withdrawalAddress
                             = getAddress(cur[p].toPluginId)
                        /\ ps.refundAddress
                             = getAddress(cur[p].fromPluginId)

C19_Witness ==
  \E p \in Procs :
    /\ RateQuoteReceived(p)
    /\ hist[p][3].ev = "response" /\ hist[p][3].status = 422
    /\ loc[p].rateResponse.message # NullStr
    /\ cur[p].quoteFor = "from"
    /\ cur[p].nativeAmount = 50
    /\ pc[p] = "transactions"

\* everything negotiation p owns
Local(p) == <<req[p], cur[p], pc[p], inv[p], loc[p], hist[p], result[p]>>

\* the calls of p carry p's own codes, amount and addresses
OwnCalls(p) ==
  \A k \in 1 .. Len(hist[p]) :
    hist[p][k].ev = "call" =>
      LET ps == hist[p][k].params
      IN /\ ps.coinFrom = req[p].fromCurrencyCode
         /\ ps.coinTo = req[p].toCurrencyCode
         /\ DirectionAmount(ps, req[p].quoteFor) = DecimalRequestAmount(req[p])
         /\ hist[p][k].route = "rate" =>
              /\ ps.coinFromNetwork
                   = MAINNET_CODE_TRANSCRIPTION[req[p].fromPluginId]
              /\ ps.coinToNetwork
                   = MAINNET_CODE_TRANSCRIPTION[req[p].toPluginId]
         /\ hist[p][k].route = "transactions" =>
              /\ ps.networkFrom
                   = MAINNET_CODE_TRANSCRIPTION[req[p].fromPluginId]
              /\ ps.networkTo
                   = MAINNET_CODE_TRANSCRIPTION[req[p].toPluginId]
              /\ ps.withdrawalAddress = getAddress(req[p].toPluginId)
              /\ ps.refundAddress = getAddress(req[p].fromPluginId)

\* the outcome of p is the one its own responses decide
OwnOutcome(p) ==
  /\ Returned(p) =>
       /\ result[p].order.request = req[p]
       /\ loc[p].callJson # <<>>
       /\ result[p].order.fromNativeAmount
            = denominationToNative(loc[p].callJson[1].amount,
                                   req[p].fromCurrencyCode)
       /\ result[p].order.spendInfo.spendTargets[1].publicAddress
            = loc[p].callJson[1].depositAddress
  /\ Failed(p) =>
       \/ WalletErrorSeen(p) /\ result[p].error = Last(hist[p]).error
       \/ /\ hist[p] # <<>>
          /\ Last(hist[p]).ev = "fetchFailed"
          /\ result[p].error.name = "CollaboratorError"
       \/ /\ hist[p] # <<>>
          /\ Last(hist[p]).ev = "response"
          /\ result[p].error.name
               \in {"Error", "SwapCurrencyError", "TypeError",
                    "SwapBelowLimitError"}
          /\ result[p].error.name = "SwapBelowLimitError"
               => /\ MinimumChecked(p)
                  /\ result[p].error.nativeMin
                       = DirectionMinimum(req[p], loc[p].rateResponse)

\* C17: with two negotiations interleaved, a step of one leaves
\* everything the other owns unchanged, and each one's calls and outcome
\* are those its own request and its own responses decide
C17_NegotiationsDoNotInterfere ==
  /\ [](\A p \in Pair : OwnCalls(p) /\ OwnOutcome(p))
  /\ [][\A p \in Procs :
          Local(p)' # Local(p)
            => \A q \in Procs \ {p} : Local(q)' = Local(q)]_vars

C17_Witness ==
  /\ Returned(1)
  /\ Returned(2)
  /\ result[1].order.request = ConcRequest(1)
  /\ result[2].order.request = ConcRequest(2)
  /\ result[1].order.spendInfo.savedAction.refundAddress
       # result[2].order.spendInfo.savedAction.refundAddress

====
